---- MODULE Spec2Model ----
(***************************************************************************)
(* Model of the match-document-filename rule                               *)
(* (packages/plugin/src/rules/match-document-filename.ts).                 *)
(*                                                                         *)
(* Strings are sequences of one-character strings, so that concatenation,  *)
(* extname/basename and the case conversion work on characters.            *)
(***************************************************************************)
EXTENDS Integers, Sequences, FiniteSets, TLC

VARIABLES
  options,          \* MatchDocumentFilenameRuleConfig read by create()
  filePath,         \* context.getFilename()
  fileExtension,    \* extname(filePath), computed by create()
  filename,         \* basename(filePath, fileExtension), computed by create()
  registered,       \* TRUE iff create() returned the Document handler
  documentNode,     \* the parsed document: a sequence of definitions
  reports,          \* the sequence of context.report() calls
  locals,           \* the Document handler's local variables at its return
  pc,               \* "ready" before the Document handler ran, "done" after
  cstyle, cname, once, twice, cpc   \* the case-conversion harness

vars == <<options, filePath, fileExtension, filename, registered, documentNode,
          reports, locals, pc, cstyle, cname, once, twice, cpc>>

-----------------------------------------------------------------------------
(* Bounds                                                                  *)

MaxDefs == 2        \* definitions per document (classification inputs)
MaxNameLen == 2     \* characters of a document name (naming inputs)
MaxStemLen == 2     \* characters of the free part of a file's basename
MaxConvLen == 4     \* characters of a name given to the conversion harness

-----------------------------------------------------------------------------
(* Optional values and strings                                             *)

None == [some |-> FALSE, v |-> <<>>]
Some(x) == [some |-> TRUE, v |-> x]

RECURSIVE SeqsOfLen(_, _)
SeqsOfLen(S, n) ==
  IF n = 0 THEN {<<>>}
  ELSE {Append(s, c) : s \in SeqsOfLen(S, n - 1), c \in S}

SeqsUpTo(S, n) == UNION {SeqsOfLen(S, k) : k \in 0..n}

MATCH_EXTENSION == "MATCH_EXTENSION"
MATCH_STYLE == "MATCH_STYLE"

GQL == <<".", "g", "q", "l">>
GRAPHQL == <<".", "g", "r", "a", "p", "h", "q", "l">>
ACCEPTED_EXTENSIONS == {GQL, GRAPHQL}

CASE_STYLES == {"camelCase", "PascalCase", "snake_case", "UPPER_CASE",
                "kebab-case", "matchDocumentStyle"}

-----------------------------------------------------------------------------
(* path.extname and path.basename (posix)                                  *)

\* index of the last occurrence of c in s, 0 if none
LastIndexOf(s, c) ==
  IF \E i \in 1..Len(s) : s[i] = c
  THEN CHOOSE i \in 1..Len(s) : s[i] = c /\ \A j \in (i + 1)..Len(s) : s[j] # c
  ELSE 0

\* the last path component
LastComponent(p) == SubSeq(p, LastIndexOf(p, "/") + 1, Len(p))

extname(p) ==
  LET b == LastComponent(p)
      d == LastIndexOf(b, ".")
  IN IF d <= 1 \/ b = <<".", ".">> THEN <<>> ELSE SubSeq(b, d, Len(b))

basename(p, ext) ==
  LET b == LastComponent(p)
      n == Len(b) - Len(ext)
  IN IF ext # <<>> /\ n > 0 /\ SubSeq(b, n + 1, Len(b)) = ext
     THEN SubSeq(b, 1, n) ELSE b

-----------------------------------------------------------------------------
(* convertCase of ../utils: word segmentation and re-join                  *)

Lowers == <<"a", "b">>
Uppers == <<"A", "B">>

IsLower(c) == \E i \in 1..Len(Lowers) : Lowers[i] = c
IsUpper(c) == \E i \in 1..Len(Uppers) : Uppers[i] = c
IsSeparator(c) == c \in {"_", "-", "."}

toLowerChar(c) ==
  IF IsUpper(c) THEN Lowers[CHOOSE i \in 1..Len(Uppers) : Uppers[i] = c] ELSE c
toUpperChar(c) ==
  IF IsLower(c) THEN Uppers[CHOOSE i \in 1..Len(Lowers) : Lowers[i] = c] ELSE c

toLowerCase(w) == [i \in 1..Len(w) |-> toLowerChar(w[i])]
toUpperCase(w) == [i \in 1..Len(w) |-> toUpperChar(w[i])]

\* a word starts at position i (i > 1, neither s[i-1] nor s[i] a separator):
\* lower-to-upper boundary, or the last capital of an acronym followed by a
\* lower-case letter
WordBoundary(s, i) ==
  \/ IsLower(s[i - 1]) /\ IsUpper(s[i])
  \/ IsUpper(s[i - 1]) /\ IsUpper(s[i]) /\ i < Len(s) /\ IsLower(s[i + 1])

RECURSIVE SplitWords(_, _, _, _)
SplitWords(s, i, cur, acc) ==
  LET flush == IF cur = <<>> THEN acc ELSE Append(acc, cur)
  IN IF i > Len(s) THEN flush
     ELSE IF IsSeparator(s[i]) THEN SplitWords(s, i + 1, <<>>, flush)
     ELSE IF cur # <<>> /\ WordBoundary(s, i)
          THEN SplitWords(s, i + 1, <<s[i]>>, flush)
     ELSE SplitWords(s, i + 1, Append(cur, s[i]), acc)

words(s) == SplitWords(s, 1, <<>>, <<>>)

capitalize(w) ==
  IF w = <<>> THEN w ELSE <<toUpperChar(w[1])>> \o toLowerCase(Tail(w))

RECURSIVE JoinWords(_, _)
JoinWords(ws, sep) ==
  IF ws = <<>> THEN <<>>
  ELSE IF Len(ws) = 1 THEN ws[1]
  ELSE ws[1] \o sep \o JoinWords(Tail(ws), sep)

camelWord(ws, i) == IF i = 1 THEN toLowerCase(ws[i]) ELSE capitalize(ws[i])

convertCase(style, str) ==
  LET ws == words(str)
  IN CASE style = "camelCase" ->
            JoinWords([i \in 1..Len(ws) |-> camelWord(ws, i)], <<>>)
       [] style = "PascalCase" -> JoinWords([i \in 1..Len(ws) |-> capitalize(ws[i])], <<>>)
       [] style = "snake_case" -> JoinWords([i \in 1..Len(ws) |-> toLowerCase(ws[i])], <<"_">>)
       [] style = "UPPER_CASE" -> JoinWords([i \in 1..Len(ws) |-> toUpperCase(ws[i])], <<"_">>)
       [] style = "kebab-case" -> JoinWords([i \in 1..Len(ws) |-> toLowerCase(ws[i])], <<"-">>)
       [] OTHER -> str

\* a matchDocumentStyle that re-cases the name instead of keeping it
convertCamelDefault(style, name) ==
  IF style = "matchDocumentStyle" THEN convertCase("camelCase", name)
  ELSE convertCase(style, name)

\* option.style === 'matchDocumentStyle' ? docName : convertCase(option.style, docName)
\* (CaseConverter.convert of the specification: the six styles, with
\* matchDocumentStyle the identity)
convert(style, name) ==
  IF style = "matchDocumentStyle" THEN name ELSE convertCase(style, name)


-----------------------------------------------------------------------------
(* Configuration values                                                    *)

\* a per-type option: undefined, a bare style string, or a PropertySchema.
\* style "" stands for an absent style.
Undefined == [tag |-> "undefined", style |-> "", prefix |-> None, suffix |-> None]
AsString(st) == [tag |-> "string", style |-> st, prefix |-> None, suffix |-> None]
AsObject(st, pre, suf) == [tag |-> "object", style |-> st, prefix |-> pre, suffix |-> suf]

DocTypes == {"query", "mutation", "subscription", "fragment"}

\* a || b on an optional string: an absent or empty a gives b
OrElse(a, b) == IF a.some /\ a.v # <<>> THEN a.v ELSE b

-----------------------------------------------------------------------------
(* Documents                                                               *)

OPERATION_DEFINITION == "OperationDefinition"
FRAGMENT_DEFINITION == "FragmentDefinition"
OBJECT_TYPE_DEFINITION == "ObjectTypeDefinition"

OperationDefinition(op, nm) ==
  [kind |-> OPERATION_DEFINITION, operation |-> op, name |-> nm]
FragmentDefinition(nm) ==
  [kind |-> FRAGMENT_DEFINITION, operation |-> "", name |-> Some(nm)]
ObjectTypeDefinition(nm) ==
  [kind |-> OBJECT_TYPE_DEFINITION, operation |-> "", name |-> Some(nm)]

\* Array.prototype.find on the definitions, by kind
find(defs, k) ==
  IF \E i \in 1..Len(defs) : defs[i].kind = k
  THEN Some(defs[CHOOSE i \in 1..Len(defs) :
                   defs[i].kind = k /\ \A j \in 1..(i - 1) : defs[j].kind # k])
  ELSE None

-----------------------------------------------------------------------------
(* The Document handler                                                    *)

Report(id, d) == [messageId |-> id, data |-> d]

\* a report for every file once an extension is configured
extensionConfigured(opts, fileExt) ==
  opts.fileExtension.some /\ opts.fileExtension.v # <<>>

\* options.fileExtension && options.fileExtension !== fileExtension
extensionMismatch(opts, fileExt) ==
  opts.fileExtension.some /\ opts.fileExtension.v # <<>>
    /\ opts.fileExtension.v # fileExt

extensionReports(opts, fileExt) ==
  IF extensionMismatch(opts, fileExt)
  THEN <<Report(MATCH_EXTENSION,
                [fileExtension |-> fileExt,
                 expectedFileExtension |-> opts.fileExtension.v])>>
  ELSE <<>>

\* a node chosen among all definitions when there is no operation or fragment
governingNodeAnyDefinition(doc) ==
  LET firstOperation == find(doc, OPERATION_DEFINITION)
      firstFragment == find(doc, FRAGMENT_DEFINITION)
  IN IF firstOperation.some THEN firstOperation
     ELSE IF firstFragment.some THEN firstFragment
     ELSE IF doc # <<>> THEN Some(doc[1]) ELSE None

\* a node chosen in document order: the first operation or fragment
governingNodeDocumentOrder(doc) ==
  IF \E i \in 1..Len(doc) : doc[i].kind \in {OPERATION_DEFINITION, FRAGMENT_DEFINITION}
  THEN Some(doc[CHOOSE i \in 1..Len(doc) :
                  /\ doc[i].kind \in {OPERATION_DEFINITION, FRAGMENT_DEFINITION}
                  /\ \A j \in 1..(i - 1) :
                       doc[j].kind \notin {OPERATION_DEFINITION, FRAGMENT_DEFINITION}])
  ELSE None

\* a node chosen among the named definitions: anonymous operations are passed over
governingNodeFirstNamed(doc) ==
  LET named == SelectSeq(doc, LAMBDA d : d.name.some)
      firstOperation == find(named, OPERATION_DEFINITION)
      firstFragment == find(named, FRAGMENT_DEFINITION)
  IN IF firstOperation.some THEN firstOperation ELSE firstFragment

\* const node = firstOperation || firstFragment
governingNode(doc) ==
  LET firstOperation == find(doc, OPERATION_DEFINITION)
      firstFragment == find(doc, FRAGMENT_DEFINITION)
  IN IF firstOperation.some THEN firstOperation ELSE firstFragment

\* 'operation' in node ? node.operation : 'fragment'
docTypeOf(node) ==
  IF node.kind = OPERATION_DEFINITION THEN node.operation ELSE "fragment"

\* an unconfigured type falls back to a default style
optionForWithDefault(opts, docType) ==
  IF opts[docType].tag = "undefined" THEN AsString("PascalCase") ELSE opts[docType]

\* let option = options[docType]
optionFor(opts, docType) == opts[docType]

\* if (typeof option === 'string') option = { style: option }
normalize(option) ==
  IF option.tag = "string" THEN AsObject(option.style, None, None) ELSE option

expectedExtensionOf(opts, fileExt) == OrElse(opts.fileExtension, fileExt)

\* without a style the document name is used, not the file's basename
expectedFilenameNoFallback(option, docName, fname, expectedExtension) ==
  LET base == IF option.style # "" THEN convert(option.style, docName) ELSE docName
  IN OrElse(option.prefix, <<>>) \o base \o OrElse(option.suffix, <<>>)
       \o expectedExtension

expectedFilenameOf(option, docName, fname, expectedExtension) ==
  LET base == IF option.style # ""
              THEN convert(option.style, docName)
              ELSE fname
  IN OrElse(option.prefix, <<>>) \o base \o OrElse(option.suffix, <<>>)
       \o expectedExtension

\* the file's real name: basename plus actual extension
filenameWithActualExtension(fname, fileExt, expectedExtension) ==
  fname \o fileExt

\* const filenameWithExtension = filename + expectedExtension
filenameWithExtensionOf(fname, fileExt, expectedExtension) ==
  fname \o expectedExtension

NoLocals == [docName |-> None, docType |-> "", option |-> Undefined,
             expectedFilename |-> None, filenameWithExtension |-> None]

\* lines 221-269 of the handler: classification and style check, as a
\* function of what they read: the report made (if any) and the values of the
\* handler's locals at its return
styleCheck(opts, fileExt, fname, doc) ==
  LET node == governingNode(doc)
  IN IF ~node.some THEN [reports |-> <<>>, locals |-> NoLocals]
     ELSE
       LET docName == node.v.name
       IN IF ~docName.some \/ docName.v = <<>>
          THEN [reports |-> <<>>, locals |-> NoLocals]
          ELSE
            LET docType == docTypeOf(node.v)
                raw == optionFor(opts, docType)
                l1 == [NoLocals EXCEPT !.docName = docName, !.docType = docType]
            IN IF raw.tag = "undefined"
               THEN [reports |-> <<>>, locals |-> l1]
               ELSE
                 LET option == normalize(raw)
                     expectedExtension == expectedExtensionOf(opts, fileExt)
                     expectedFilename ==
                       expectedFilenameOf(option, docName.v, fname, expectedExtension)
                     filenameWithExtension ==
                       filenameWithExtensionOf(fname, fileExt, expectedExtension)
                     l2 == [l1 EXCEPT !.option = option,
                                      !.expectedFilename = Some(expectedFilename),
                                      !.filenameWithExtension = Some(filenameWithExtension)]
                 IN IF expectedFilename # filenameWithExtension
                    THEN [reports |-> <<Report(MATCH_STYLE,
                                   [expectedFilename |-> expectedFilename,
                                    filename |-> filenameWithExtension])>>,
                          locals |-> l2]
                    ELSE [reports |-> <<>>, locals |-> l2]

\* a handler that returns after reporting the extension
DocumentReturnsAfterExtension(opts, fileExt, fname, doc) ==
  LET r1 == extensionReports(opts, fileExt)
      sc == styleCheck(opts, fileExt, fname, doc)
  IN IF r1 # <<>> THEN [reports |-> r1, locals |-> NoLocals]
     ELSE [reports |-> sc.reports, locals |-> sc.locals]

\* the Document handler: the extension check, then the style check
Document(opts, fileExt, fname, doc) ==
  LET r1 == extensionReports(opts, fileExt)
      sc == styleCheck(opts, fileExt, fname, doc)
  IN [reports |-> r1 \o sc.reports, locals |-> sc.locals]

-----------------------------------------------------------------------------
(* Inputs                                                                  *)

Config(ext, q, m, sub, f) ==
  [fileExtension |-> ext, query |-> q, mutation |-> m, subscription |-> sub,
   fragment |-> f]

ConfiguredExtensions == {None} \cup {Some(e) : e \in ACCEPTED_EXTENSIONS}

Dir == <<"s", "/">>
Prefix == <<"b", ".">>
Suffix == <<".", "b">>

\* Classification inputs: documents of up to MaxDefs definitions of every
\* kind, any subset of the four per-type options, a few files, which may be
\* virtual files outside of tests (no handler is registered then).
ClassifyNames == {<<"a">>, <<"A">>}
ClassifyDefinitions ==
  {OperationDefinition(op, nm) :
     op \in {"query", "mutation", "subscription"},
     nm \in {None} \cup {Some(n) : n \in ClassifyNames}}
  \cup {FragmentDefinition(n) : n \in ClassifyNames}
  \cup {ObjectTypeDefinition(<<"a">>)}
ClassifyConfigs ==
  {Config(e, q, m, sub, f) :
     e \in {None, Some(GRAPHQL)},
     q \in {Undefined, AsString("PascalCase")},
     m \in {Undefined, AsString("snake_case")},
     sub \in {Undefined, AsObject("matchDocumentStyle", None, Some(Suffix))},
     f \in {Undefined, AsObject("", Some(Prefix), None)}}
ClassifyFiles ==
  {Dir \o <<"a">> \o GQL, Dir \o <<"A">> \o GRAPHQL, Dir \o Prefix \o <<"a">> \o GQL}
ClassifyInputs ==
  {[options |-> c, filePath |-> p, documentNode |-> d, registered |-> r] :
     c \in ClassifyConfigs, p \in ClassifyFiles,
     d \in SeqsUpTo(ClassifyDefinitions, MaxDefs), r \in BOOLEAN}

\* Naming inputs: one named query, every shape of option for queries,
\* names of up to MaxNameLen characters, .gql files whose basenames are built
\* around a stem of up to MaxStemLen characters, with fileExtension absent,
\* equal to the file's or different.
NameChars == {"a", "A", "_"}
StemChars == {"a", "A", "-"}
NamingNames == SeqsUpTo(NameChars, MaxNameLen) \ {<<>>}
NamingOptions ==
  {Undefined} \cup {AsString(st) : st \in CASE_STYLES}
  \cup ({AsObject(st, pre, suf) :
           st \in {"", "kebab-case"},
           pre \in {None, Some(Prefix)}, suf \in {None, Some(Suffix)}}
        \ {AsObject("", None, None)})
NamingFiles ==
  {Dir \o pre \o stem \o suf \o GQL :
     pre \in {<<>>, Prefix}, stem \in SeqsUpTo(StemChars, MaxStemLen),
     suf \in {<<>>, Suffix}}
NamingInputs ==
  {[options |-> c, filePath |-> p, documentNode |-> d, registered |-> TRUE] :
     c \in {Config(e, o, Undefined, Undefined, Undefined) :
              e \in ConfiguredExtensions, o \in NamingOptions},
     p \in NamingFiles,
     d \in {<<OperationDefinition("query", Some(n))>> : n \in NamingNames}}

-----------------------------------------------------------------------------
(* The rule: create() and the Document handler                             *)

ConvIdle == cstyle = "" /\ cname = <<>> /\ once = <<>> /\ twice = <<>> /\ cpc = "off"

\* the state after create(context): the options and the file name are read,
\* the handler is registered unless the file is virtual outside of tests
Init ==
  /\ \E in \in ClassifyInputs \cup NamingInputs :
       /\ options = in.options
       /\ filePath = in.filePath
       /\ documentNode = in.documentNode
       /\ registered = in.registered
  /\ fileExtension = extname(filePath)
  /\ filename = basename(filePath, fileExtension)
  /\ reports = <<>>
  /\ locals = NoLocals
  /\ pc = "ready"
  /\ ConvIdle

DocumentStep ==
  /\ pc = "ready"
  /\ registered
  /\ LET out == Document(options, fileExtension, filename, documentNode)
     IN /\ reports' = out.reports
        /\ locals' = out.locals
  /\ pc' = "done"
  /\ UNCHANGED <<options, filePath, fileExtension, filename, registered,
                 documentNode, cstyle, cname, once, twice, cpc>>

Next == DocumentStep

Spec == Init /\ [][Next]_vars

-----------------------------------------------------------------------------
(* The case-conversion harness: convert a name, then convert the result    *)

ConvChars == {"a", "A", "_", "-", "."}

RuleIdle ==
  /\ options = Config(None, Undefined, Undefined, Undefined, Undefined)
  /\ filePath = <<>> /\ fileExtension = <<>> /\ filename = <<>>
  /\ registered = FALSE /\ documentNode = <<>> /\ reports = <<>>
  /\ locals = NoLocals /\ pc = "off"

InitConv ==
  /\ RuleIdle
  /\ cstyle \in CASE_STYLES
  /\ cname \in SeqsUpTo(ConvChars, MaxConvLen)
  /\ once = <<>>
  /\ twice = <<>>
  /\ cpc = "start"

ConvertOnce ==
  /\ cpc = "start"
  /\ once' = convert(cstyle, cname)
  /\ cpc' = "once"
  /\ UNCHANGED <<options, filePath, fileExtension, filename, registered,
                 documentNode, reports, locals, pc, cstyle, cname, twice>>

ConvertTwice ==
  /\ cpc = "once"
  /\ twice' = convert(cstyle, once)
  /\ cpc' = "twice"
  /\ UNCHANGED <<options, filePath, fileExtension, filename, registered,
                 documentNode, reports, locals, pc, cstyle, cname, once>>

NextConv == ConvertOnce \/ ConvertTwice

SpecConv == InitConv /\ [][NextConv]_vars

-----------------------------------------------------------------------------
(* Claims                                                                  *)

\* C8 as stated: converting twice with the same style gives the same name as
\* converting once, for every one of the six styles.
C8_IdempotentAllStyles == cpc = "twice" => twice = once

\* C8 amended: converting twice gives the same name as converting once for
\* snake_case, UPPER_CASE, kebab-case and matchDocumentStyle (camelCase and
\* PascalCase re-case a run of single-letter words: a_b -> AB -> Ab).
C8_IdempotentSeparatedStyles ==
  (cpc = "twice" /\ cstyle \notin {"camelCase", "PascalCase"}) => twice = once

\* a multi-word name was re-cased and re-joined by a separator style, twice
C8_Witness ==
  /\ cpc = "twice"
  /\ cstyle = "UPPER_CASE"
  /\ Len(words(cname)) >= 2
  /\ once # cname
  /\ twice = once

\* what the claims speak of, read off the inputs and the reports
HasReport(rs, id) == \E i \in 1..Len(rs) : rs[i].messageId = id
CountReports(rs, id) == Cardinality({i \in 1..Len(rs) : rs[i].messageId = id})

Min(S) == CHOOSE x \in S : \A y \in S : x <= y
OperationIndexes ==
  {i \in 1..Len(documentNode) : documentNode[i].kind = OPERATION_DEFINITION}
FragmentIndexes ==
  {i \in 1..Len(documentNode) : documentNode[i].kind = FRAGMENT_DEFINITION}
GoverningIndex ==
  IF OperationIndexes # {} THEN Min(OperationIndexes)
  ELSE IF FragmentIndexes # {} THEN Min(FragmentIndexes) ELSE 0
Governing == documentNode[GoverningIndex]
GoverningType ==
  IF Governing.kind = OPERATION_DEFINITION THEN Governing.operation ELSE "fragment"
Classified == GoverningIndex > 0 /\ Governing.name.some
Policy == options[GoverningType]
PolicyConfigured == Policy.tag # "undefined"
ExtensionDiffers ==
  options.fileExtension.some /\ options.fileExtension.v # fileExtension
EffectiveExtension ==
  IF options.fileExtension.some THEN options.fileExtension.v ELSE fileExtension
ExpectedBase ==
  IF Policy.style = "" THEN filename
  ELSE IF Policy.style = "matchDocumentStyle" THEN Governing.name.v
  ELSE convertCase(Policy.style, Governing.name.v)
ExpectedName ==
  (IF Policy.prefix.some THEN Policy.prefix.v ELSE <<>>) \o ExpectedBase
    \o (IF Policy.suffix.some THEN Policy.suffix.v ELSE <<>>) \o EffectiveExtension

\* C1: MATCH_EXTENSION is reported exactly when fileExtension is configured
\* and differs from the file's extension, and it carries the actual and the
\* configured extension.
C1_ExtensionCheck ==
  pc = "done" =>
    /\ HasReport(reports, MATCH_EXTENSION) <=> ExtensionDiffers
    /\ \A i \in 1..Len(reports) :
         reports[i].messageId = MATCH_EXTENSION =>
           reports[i].data = [fileExtension |-> fileExtension,
                              expectedFileExtension |-> options.fileExtension.v]

\* Scenario B: .graphql configured, the file is .gql, the report is made
C1_Witness ==
  /\ pc = "done"
  /\ options.fileExtension = Some(GRAPHQL)
  /\ fileExtension = GQL
  /\ HasReport(reports, MATCH_EXTENSION)

NoDefinitionToName == OperationIndexes = {} /\ FragmentIndexes = {}

\* C2 as stated: a document with no operation and no fragment definition
\* gets no diagnostics at all.
C2_NoDiagnosticsAtAll ==
  (pc = "done" /\ NoDefinitionToName) => reports = <<>>

\* C2 amended: a document with no operation and no fragment definition gets
\* no MATCH_STYLE diagnostic; the extension check still applies to it, so its
\* only possible diagnostic is the MATCH_EXTENSION of a differing extension.
C2_NoStyleDiagnostic ==
  (pc = "done" /\ NoDefinitionToName) =>
    /\ ~HasReport(reports, MATCH_STYLE)
    /\ reports # <<>> <=> ExtensionDiffers

\* a type-only document, a policy configured for fragments, a wrong extension
C2_Witness ==
  /\ pc = "done"
  /\ NoDefinitionToName
  /\ documentNode # <<>>
  /\ options.fragment.tag # "undefined"
  /\ HasReport(reports, MATCH_EXTENSION)

StyleReportCarries(expected, actual) ==
  \A i \in 1..Len(reports) :
    reports[i].messageId = MATCH_STYLE =>
      reports[i].data = [expectedFilename |-> expected, filename |-> actual]

\* C3 as stated: the expected filename is compared with the file's real name
\* (basename plus actual extension), MATCH_STYLE is reported exactly when they
\* differ, and it carries the real name.
C3_ComparedWithActualName ==
  (pc = "done" /\ Classified /\ PolicyConfigured) =>
    /\ HasReport(reports, MATCH_STYLE) <=> ExpectedName # filename \o fileExtension
    /\ StyleReportCarries(ExpectedName, filename \o fileExtension)

\* C3 amended: the expected filename is compared with the actual basename
\* plus the effective extension (the configured fileExtension if set,
\* otherwise the actual one); MATCH_STYLE is reported exactly when they
\* differ and carries that name as filename.
C3_ComparedWithEffectiveName ==
  (pc = "done" /\ Classified /\ PolicyConfigured) =>
    /\ HasReport(reports, MATCH_STYLE) <=> ExpectedName # filename \o EffectiveExtension
    /\ StyleReportCarries(ExpectedName, filename \o EffectiveExtension)

\* a style report made while the configured extension differs from the actual
C3_Witness ==
  /\ pc = "done"
  /\ Classified /\ PolicyConfigured
  /\ ExtensionDiffers
  /\ HasReport(reports, MATCH_STYLE)

\* the same configuration with the governing type's bare style string
\* written as an object
ObjectForm == [options EXCEPT ![GoverningType] = AsObject(Policy.style, None, None)]

\* C4: the expected filename is prefix + base + suffix + effective extension,
\* with base the document name (matchDocumentStyle), the converted document
\* name (any other style) or the actual basename (no style); a bare style
\* string gives what the object {style: S} gives.
C4_ExpectedFilename ==
  (pc = "done" /\ Classified /\ PolicyConfigured) =>
    /\ locals.expectedFilename = Some(ExpectedName)
    /\ Policy.tag = "string" =>
         Document(ObjectForm, fileExtension, filename, documentNode)
           = [reports |-> reports, locals |-> locals]

\* a converted multi-word name between a prefix and a suffix
C4_Witness ==
  /\ pc = "done"
  /\ Classified /\ PolicyConfigured
  /\ Policy.style = "kebab-case" /\ Policy.prefix.some /\ Policy.suffix.some
  /\ Len(words(Governing.name.v)) >= 2
  /\ locals.expectedFilename.some

StartsWith(s, p) == Len(s) >= Len(p) /\ SubSeq(s, 1, Len(p)) = p
EndsWith(s, p) == Len(s) >= Len(p) /\ SubSeq(s, Len(s) - Len(p) + 1, Len(s)) = p
PrefixOf(o) == IF o.prefix.some THEN o.prefix.v ELSE <<>>
SuffixOf(o) == IF o.suffix.some THEN o.suffix.v ELSE <<>>

\* C5: under a policy with a prefix and/or suffix and no style, a file whose
\* basename is already prefix + X + suffix gets no MATCH_STYLE diagnostic.
C5_PrefixSuffixOnlyAccepted ==
  (/\ pc = "done" /\ Classified /\ PolicyConfigured
   /\ Policy.style = ""
   /\ Len(filename) >= Len(PrefixOf(Policy)) + Len(SuffixOf(Policy))
   /\ StartsWith(filename, PrefixOf(Policy))
   /\ EndsWith(filename, SuffixOf(Policy)))
  => ~HasReport(reports, MATCH_STYLE)

\* C6: the first operation definition governs, with its kind as document
\* type, even after an earlier fragment; the first fragment governs only in
\* a document without operations; only that type's policy is consulted.
C6_OperationTakesPrecedence ==
  (pc = "done" /\ Classified) =>
    /\ locals.docName = Governing.name
    /\ locals.docType = GoverningType
    /\ OperationIndexes # {} =>
         locals.docType = documentNode[Min(OperationIndexes)].operation
    /\ OperationIndexes = {} => locals.docType = "fragment"
    /\ locals.option = normalize(options[GoverningType])
    /\ HasReport(reports, MATCH_STYLE) => PolicyConfigured

\* a named operation after a fragment of another name, both types configured
C6_Witness ==
  /\ pc = "done"
  /\ Len(documentNode) >= 2
  /\ documentNode[1].kind = FRAGMENT_DEFINITION
  /\ documentNode[2].kind = OPERATION_DEFINITION
  /\ documentNode[2].name.some
  /\ documentNode[2].name # documentNode[1].name
  /\ options.fragment.tag # "undefined"
  /\ options[documentNode[2].operation].tag # "undefined"
  /\ locals.docType = documentNode[2].operation

\* C7: when the classified document type has no configured policy, no
\* MATCH_STYLE diagnostic is reported.
C7_NoPolicyNoStyleCheck ==
  (pc = "done" /\ Classified /\ ~PolicyConfigured) =>
    ~HasReport(reports, MATCH_STYLE)

\* a named mutation, policies for other types only, a basename that is not
\* the document name
C7_Witness ==
  /\ pc = "done"
  /\ Classified /\ ~PolicyConfigured
  /\ GoverningType = "mutation"
  /\ options.query.tag # "undefined" /\ options.fragment.tag # "undefined"
  /\ filename # Governing.name.v

FirstOperationAnonymous ==
  OperationIndexes # {} /\ ~documentNode[Min(OperationIndexes)].name.some

\* C9: when the first operation definition is anonymous, no MATCH_STYLE
\* diagnostic is reported and no later definition is classified in its place.
C9_AnonymousSkipsStyleCheck ==
  (pc = "done" /\ FirstOperationAnonymous) =>
    /\ ~HasReport(reports, MATCH_STYLE)
    /\ locals = NoLocals

\* an anonymous query followed by a named query whose policy is configured
\* and whose name the file does not match
C9_Witness ==
  /\ pc = "done"
  /\ Len(documentNode) >= 2
  /\ documentNode[1] = OperationDefinition("query", None)
  /\ documentNode[2] = OperationDefinition("query", Some(<<"a">>))
  /\ options.query = AsString("PascalCase")
  /\ filename = <<"a">>

\* C10: whether MATCH_STYLE is reported does not change with the configured
\* fileExtension or with the actual extension; at most one diagnostic of each
\* code is reported, MATCH_EXTENSION before MATCH_STYLE.
C10_ChecksIndependent ==
  pc = "done" =>
    /\ \A cfg \in ConfiguredExtensions, ext \in ACCEPTED_EXTENSIONS \cup {<<>>} :
         HasReport(Document([options EXCEPT !.fileExtension = cfg], ext,
                            filename, documentNode).reports, MATCH_STYLE)
           <=> HasReport(reports, MATCH_STYLE)
    /\ CountReports(reports, MATCH_EXTENSION) <= 1
    /\ CountReports(reports, MATCH_STYLE) <= 1
    /\ (HasReport(reports, MATCH_EXTENSION) /\ HasReport(reports, MATCH_STYLE)) =>
         /\ reports[1].messageId = MATCH_EXTENSION
         /\ reports[2].messageId = MATCH_STYLE

\* both diagnostics reported for the same document
C10_Witness ==
  /\ pc = "done"
  /\ Len(reports) = 2
  /\ HasReport(reports, MATCH_EXTENSION)
  /\ HasReport(reports, MATCH_STYLE)

====
